---- MODULE Spec2Model ----
(***************************************************************************)
(* A model of cvd_risk_app.py: the four calculation functions              *)
(* (calculate_smart_risk, calculate_ldl_effect, calculate_ldl_reduction,   *)
(* generate_recommendations) and the Streamlit script that wires them to   *)
(* the sidebar widgets and the treatment form.                             *)
(*                                                                         *)
(* Numbers.  Python floats are modelled as exact decimal fixed-point       *)
(* integers; every quantity carries its unit in its name or comment:       *)
(*   tenths     total_chol, hdl and crp as entered (step 0.1);             *)
(*   permille   total_reduction, in tenths of a percent (27.5 % = 275);    *)
(*   LdlUnit    10^-4 mmol/L: every LDL value (3.5 mmol/L = 35000);        *)
(*   RrrUnit    10^-4 percent: rrr (60 % = 600000), so that rrr / 100 is  *)
(*              rrr * 10^-6;                                               *)
(*   RiskUnit   10^-7 percent: every risk (1.0 % = 10^7), so that          *)
(*              risk * (1 - rrr / 100) of a one-decimal risk is exact.     *)
(* With these units lines 62-71 and 77-88 are exact integer arithmetic on  *)
(* risks and LDL values that have one decimal.                             *)
(* math.log, math.exp and ** of lines 50-54 are evaluated in 10^-6         *)
(* fixed point (Micro), by range reduction and a power series.             *)
(* Binary rounding of the last float digit is not modelled; on the inputs  *)
(* drawn here calculate_smart_risk is within 0.1 of the Python result.     *)
(***************************************************************************)
EXTENDS Integers, Sequences, FiniteSets, TLC

Micro == 1000 * 1000

Max(a, b) == IF a >= b THEN a ELSE b
Min(a, b) == IF a <= b THEN a ELSE b

(* A Python value that is either a number or not one (None).               *)
Num(v) == [tag |-> "num", val |-> v]
PyNone == [tag |-> "None", val |-> 0]
IsNum(x) == x.tag = "num"

(***************************************************************************)
(* Fixed-point arithmetic in units of 10^-6, kept inside 32 bits.          *)
(***************************************************************************)
(* a * b / 10^6 for a, b >= 0, by three-digit limbs.                       *)
MulFix(a, b) ==
    LET a1 == a \div 1000
        a0 == a % 1000
        b1 == b \div 1000
        b0 == b % 1000
    IN  a1 * b1 + (a1 * b0 + a0 * b1 + (a0 * b0) \div 1000) \div 1000

(* a * 10^6 / b for 0 <= a, 0 < b < 2*10^7, by base-100 long division.     *)
DivFix(a, b) ==
    LET q0 == a \div b
        r0 == a % b
        d1 == (r0 * 100) \div b
        r1 == (r0 * 100) % b
        d2 == (r1 * 100) \div b
        r2 == (r1 * 100) % b
        d3 == (r2 * 100) \div b
    IN  q0 * Micro + d1 * 10000 + d2 * 100 + d3

RECURSIVE Pow2(_)
Pow2(k) == IF k = 0 THEN 1 ELSE 2 * Pow2(k - 1)

(* ln 2 and -ln 0.9 in units of 10^-6.                                     *)
Ln2Micro == 693147
NegLn900Micro == 105361

(* exp(r) for 0 <= r < ln 2: the Taylor series in Horner form,             *)
(* 1 + r/1 (1 + r/2 (1 + ... (1 + r/n))).                                  *)
RECURSIVE ExpSeries(_, _, _)
ExpSeries(r, n, acc) ==
    IF n = 0 THEN acc
    ELSE ExpSeries(r, n - 1, Micro + MulFix(r, acc) \div n)

ExpTerms == 12

(* Arguments beyond these give 0 or more than 400 in 10^-6 fixed point.    *)
ExpFloorMicro == -14000000
ExpCeilMicro == 6000000

(* math.exp(t): t and the result in units of 10^-6.  The result saturates  *)
(* at e^6 (about 403); 0.9 ** e is below 10^-6 from e = 132 on.            *)
ExpMicro(t) ==
    IF t <= ExpFloorMicro THEN 0
    ELSE LET tt == Min(t, ExpCeilMicro)
             k == tt \div Ln2Micro
             r == tt - k * Ln2Micro
             s == ExpSeries(r, ExpTerms, Micro)
         IN  IF k >= 0 THEN s * Pow2(k) ELSE s \div Pow2(-k)

(* The sum 1 + z2/3 + z2^2/5 + ... of the atanh series, in Horner form.    *)
RECURSIVE AtanhSeries(_, _, _)
AtanhSeries(z2, d, acc) ==
    IF d < 1 THEN acc
    ELSE AtanhSeries(z2, d - 2, Micro \div d + MulFix(z2, acc))

AtanhLastDenominator == 15

(* The number of halvings that bring y (10^-6 units, y >= 1) below 2.      *)
RECURSIVE Log2Floor(_)
Log2Floor(y) == IF y < 2 * Micro THEN 0 ELSE 1 + Log2Floor(y \div 2)

(* math.log(y) for y >= 1: y and the result in units of 10^-6.             *)
(* ln y = k ln 2 + 2 atanh((m - 1)/(m + 1)) with m = y / 2^k in [1, 2).    *)
LnMicro(y) ==
    LET k == Log2Floor(y)
        m == y \div Pow2(k)
        z == DivFix(m - Micro, m + Micro)
        s == AtanhSeries(MulFix(z, z), AtanhLastDenominator, 0)
    IN  k * Ln2Micro + 2 * MulFix(z, s)

(* 0.900 ** e (line 54), as exp(e * ln 0.9).                               *)
Pow900(e) == ExpMicro(-MulFix(e, NegLn900Micro))

(***************************************************************************)
(* CONSTANTS (lines 15-20)                                                 *)
(***************************************************************************)
TherapyNames ==
    {"Atorvastatin 20 mg", "Atorvastatin 80 mg", "Rosuvastatin 10 mg", "Rosuvastatin 20 mg"}

(* Percent LDL reduction of each catalog entry.                            *)
LDL_THERAPIES ==
    [n \in TherapyNames |->
        CASE n = "Atorvastatin 20 mg" -> 40
          [] n = "Atorvastatin 80 mg" -> 50
          [] n = "Rosuvastatin 10 mg" -> 45
          [] n = "Rosuvastatin 20 mg" -> 55]

(***************************************************************************)
(* CALCULATION FUNCTIONS (lines 44-96)                                     *)
(***************************************************************************)
(* One percent and one tenth of a percent of risk, in RiskUnit.            *)
RiskPercent == 10 * Micro
RiskTenth == Micro

(* math.exp raises OverflowError above ln(DBL_MAX) = 709.782712...         *)
ExpOverflowMicro == 709782712

(* round_and_clamp without the clamp of line 55.                           *)
round_without_clamp(risk10) == ((risk10 + 500) \div 1000) * Micro

(* Line 55: round(risk10 * 100, 1), then max(1.0, min(99.0, .)); risk10 in *)
(* units of 10^-6, the result in RiskUnit.                                 *)
round_and_clamp(risk10) ==
    LET rounded == ((risk10 + 500) \div 1000) * RiskTenth
    IN  Max(1 * RiskPercent, Min(99 * RiskPercent, rounded))

(* Lines 47-54: risk10 in units of 10^-6, or None where the try block      *)
(* raises.  age, sbp, egfr, vasc_count: integers; total_chol, hdl, crp:    *)
(* tenths; sex a string; smoker, diabetes Booleans.  A non-numeric operand *)
(* raises TypeError and an exponent above ExpOverflowMicro OverflowError.  *)
smart_risk10(age, sex, sbp, total_chol, hdl, smoker, diabetes, egfr, crp, vasc_count) ==
    IF ~(IsNum(age) /\ IsNum(sbp) /\ IsNum(total_chol) /\ IsNum(hdl)
         /\ IsNum(egfr) /\ IsNum(crp) /\ IsNum(vasc_count))
    THEN PyNone
    ELSE LET sex_val == IF sex = "Male" THEN 1 ELSE 0
             smoking_val == IF smoker THEN 1 ELSE 0
             diabetes_val == IF diabetes THEN 1 ELSE 0
             \* math.log(max(crp, 0.1) + 1), crp in tenths
             crp_log == LnMicro((Max(crp.val, 1) + 10) * 100000)
             lp == 64000 * age.val + 340000 * sex_val + 20000 * sbp.val
                   + 25000 * total_chol.val - 25000 * hdl.val
                   + 440000 * smoking_val + 510000 * diabetes_val
                   - 20000 * egfr.val + crp_log \div 4 + 400000 * vasc_count.val
             x == lp - 5800000
         IN  IF x > ExpOverflowMicro THEN PyNone
             ELSE Num(Micro - Pow900(ExpMicro(x)))

(* Lines 45-58: the except clause of lines 56-58 turns what the try block  *)
(* raises into None; the result is in RiskUnit.                            *)
calculate_smart_risk(age, sex, sbp, total_chol, hdl, smoker, diabetes, egfr, crp, vasc_count) ==
    LET risk10 == smart_risk10(age, sex, sbp, total_chol, hdl, smoker, diabetes,
                      egfr, crp, vasc_count)
    IN  IF IsNum(risk10) THEN Num(round_and_clamp(risk10.val)) ELSE PyNone

(* relative_risk_reduction without the overall cap of line 70.             *)
relative_risk_reduction_uncapped(baseline_ldl, final_ldl, bp_controlled, smoking_cessation, lifestyle) ==
    LET rrr0 == Min(22 * (baseline_ldl - final_ldl), 60 * 10000)
    IN  rrr0 + (IF bp_controlled THEN 10 * 10000 ELSE 0)
             + (IF smoking_cessation THEN 10 * 10000 ELSE 0)
             + (IF lifestyle THEN 5 * 10000 ELSE 0)

(* relative_risk_reduction with the LDL term of line 63 floored at 0.      *)
relative_risk_reduction_floored(baseline_ldl, final_ldl, bp_controlled, smoking_cessation, lifestyle) ==
    LET rrr0 == Max(0, Min(22 * (baseline_ldl - final_ldl), 60 * 10000))
    IN  Min(rrr0 + (IF bp_controlled THEN 10 * 10000 ELSE 0)
                 + (IF smoking_cessation THEN 10 * 10000 ELSE 0)
                 + (IF lifestyle THEN 5 * 10000 ELSE 0), 80 * 10000)

(* Lines 62-70: the relative risk reduction, in RrrUnit.                   *)
relative_risk_reduction(baseline_ldl, final_ldl, bp_controlled, smoking_cessation, lifestyle) ==
    LET ldl_reduction == baseline_ldl - final_ldl
        rrr0 == Min(22 * ldl_reduction, 60 * 10000)
        rrr1 == IF bp_controlled THEN rrr0 + 10 * 10000 ELSE rrr0
        rrr2 == IF smoking_cessation THEN rrr1 + 10 * 10000 ELSE rrr1
        rrr3 == IF lifestyle THEN rrr2 + 5 * 10000 ELSE rrr2
    IN  Min(rrr3, 80 * 10000)

(* risk * factor, risk in RiskUnit of either sign, factor >= 0 in 10^-6.   *)
ScaleRisk(risk, factor) ==
    IF risk < 0 THEN -MulFix(-risk, factor) ELSE MulFix(risk, factor)

(* calculate_ldl_effect whose except clause returns None.                  *)
calculate_ldl_effect_none_on_error(baseline_risk, baseline_ldl, final_ldl, bp_controlled, smoking_cessation, lifestyle) ==
    IF ~(IsNum(baseline_ldl) /\ IsNum(final_ldl) /\ IsNum(baseline_risk))
    THEN PyNone
    ELSE Num(ScaleRisk(baseline_risk.val,
                 Micro - relative_risk_reduction(baseline_ldl.val, final_ldl.val,
                             bp_controlled, smoking_cessation, lifestyle)))

(* Lines 60-74.  baseline_risk in RiskUnit, the LDL values in LdlUnit.  A  *)
(* non-numeric operand raises TypeError at line 62 or 71, and the except   *)
(* clause of lines 72-74 returns baseline_risk as it was passed.           *)
calculate_ldl_effect(baseline_risk, baseline_ldl, final_ldl, bp_controlled, smoking_cessation, lifestyle) ==
    IF ~(IsNum(baseline_ldl) /\ IsNum(final_ldl) /\ IsNum(baseline_risk))
    THEN baseline_risk
    ELSE LET rrr == relative_risk_reduction(baseline_ldl.val, final_ldl.val,
                        bp_controlled, smoking_cessation, lifestyle)
         IN  Num(ScaleRisk(baseline_risk.val, Micro - rrr))

(* Line 77: LDL_THERAPIES.get(name, {}).get("reduction", 0), in percent.   *)
therapy_reduction(name) ==
    IF name \in DOMAIN LDL_THERAPIES THEN LDL_THERAPIES[name] ELSE 0

(* The total reduction of lines 77-86, in permille.                        *)
total_reduction_of(pre_statin, discharge_statin, discharge_add_ons) ==
    LET statin0 == 10 * therapy_reduction(discharge_statin)
        statin_reduction == IF pre_statin # "None" THEN statin0 \div 2 ELSE statin0
        t1 == IF "Ezetimibe" \in discharge_add_ons
              THEN statin_reduction + 200 ELSE statin_reduction
        t2 == IF "PCSK9 inhibitor" \in discharge_add_ons THEN t1 + 600 ELSE t1
    IN  IF "Inclisiran" \in discharge_add_ons THEN t2 + 500 ELSE t2

(* calculate_ldl_reduction with the total reduction capped at 100 %.       *)
calculate_ldl_reduction_capped(current_ldl, pre_statin, discharge_statin, discharge_add_ons) ==
    LET total_reduction ==
            Min(1000, total_reduction_of(pre_statin, discharge_statin, discharge_add_ons))
    IN  IF ~IsNum(current_ldl)
        THEN [raised |-> TRUE, projected_ldl |-> PyNone, total_reduction |-> 0]
        ELSE [raised |-> FALSE,
              projected_ldl |-> Num((current_ldl.val \div 1000) * (1000 - total_reduction)),
              total_reduction |-> total_reduction]

(* calculate_ldl_reduction with the sign of line 87 wrong.                 *)
calculate_ldl_reduction_raising_ldl(current_ldl, pre_statin, discharge_statin, discharge_add_ons) ==
    LET total_reduction ==
            total_reduction_of(pre_statin, discharge_statin, discharge_add_ons)
    IN  IF ~IsNum(current_ldl)
        THEN [raised |-> TRUE, projected_ldl |-> PyNone, total_reduction |-> 0]
        ELSE [raised |-> FALSE,
              projected_ldl |-> Num((current_ldl.val \div 1000) * (1000 + total_reduction)),
              total_reduction |-> total_reduction]

(* Lines 76-88.  current_ldl in LdlUnit (a multiple of 0.1 mmol/L);        *)
(* total_reduction in permille.  The function has no try: a non-numeric    *)
(* current_ldl raises TypeError at line 87.                                *)
calculate_ldl_reduction(current_ldl, pre_statin, discharge_statin, discharge_add_ons) ==
    LET total_reduction ==
            total_reduction_of(pre_statin, discharge_statin, discharge_add_ons)
    IN  IF ~IsNum(current_ldl)
        THEN [raised |-> TRUE, projected_ldl |-> PyNone, total_reduction |-> 0]
        ELSE [raised |-> FALSE,
              projected_ldl |-> Num((current_ldl.val \div 1000) * (1000 - total_reduction)),
              total_reduction |-> total_reduction]

(* generate_recommendations with > for >= in lines 91 and 93.              *)
generate_recommendations_strict(final_risk) ==
    IF ~IsNum(final_risk) THEN [raised |-> TRUE, tier |-> ""]
    ELSE IF final_risk.val > 30 * RiskPercent
         THEN [raised |-> FALSE, tier |-> "Very High Risk"]
    ELSE IF final_risk.val > 20 * RiskPercent
         THEN [raised |-> FALSE, tier |-> "High Risk"]
    ELSE [raised |-> FALSE, tier |-> "Moderate Risk"]

(* Lines 90-96: the tier of the returned text; final_risk in RiskUnit.  A  *)
(* non-numeric final_risk raises TypeError at line 91.                     *)
generate_recommendations(final_risk) ==
    IF ~IsNum(final_risk) THEN [raised |-> TRUE, tier |-> ""]
    ELSE IF final_risk.val >= 30 * RiskPercent
         THEN [raised |-> FALSE, tier |-> "Very High Risk"]
    ELSE IF final_risk.val >= 20 * RiskPercent
         THEN [raised |-> FALSE, tier |-> "High Risk"]
    ELSE [raised |-> FALSE, tier |-> "Moderate Risk"]

(***************************************************************************)
(* STREAMLIT APP (lines 125-191)                                           *)
(*                                                                         *)
(* Streamlit runs the whole script again after every interaction.  The     *)
(* state that survives a run is the widgets' values; the script's          *)
(* variables are rebuilt by each run.                                      *)
(***************************************************************************)
VARIABLES
    w,              \* the sidebar widgets' values (lines 130-153)
    form,           \* the treatment form's widgets (lines 169-171)
    submitted,      \* line 175: TRUE only in the run a click on the button starts
    out,            \* what the last run of lines 159-191 computed and showed
    interactions,   \* the number of interactions so far
    call            \* a direct call of one of the four functions (section 6)

vars == <<w, form, submitted, out, interactions, call>>

(* The number of user interactions in one session.                         *)
MaxInteractions == 2

(* An age the sidebar's number_input (30 to 100) does not let through; it  *)
(* stands for the out-of-domain input of the spec's section 7, and makes   *)
(* math.exp of line 54 raise OverflowError.                                *)
AgeOutOfDomain == 12000

(* The values each sidebar widget takes in the model: the bounds and the   *)
(* default of its declaration (radio options, both states of a checkbox).  *)
(* total_chol, hdl, crp in tenths; ldl in LdlUnit.                         *)
WidgetValues ==
    [age |-> {30, 65, 100, AgeOutOfDomain},
     sex |-> {"Male", "Female"},
     diabetes |-> BOOLEAN,
     smoker |-> BOOLEAN,
     cad |-> BOOLEAN,
     stroke |-> BOOLEAN,
     pad |-> BOOLEAN,
     total_chol |-> {20, 50, 100},
     hdl |-> {5, 10, 30},
     ldl |-> {5000, 35000, 60000},
     sbp |-> {90, 140, 220},
     egfr |-> {15, 80, 120},
     crp |-> {1, 20, 200},
     include_crp |-> BOOLEAN,
     bp_controlled |-> BOOLEAN,
     smoking_cessation |-> BOOLEAN,
     lifestyle |-> BOOLEAN]

(* The widgets' default values.                                            *)
WidgetDefaults ==
    [age |-> 65, sex |-> "Male", diabetes |-> FALSE, smoker |-> FALSE,
     cad |-> FALSE, stroke |-> FALSE, pad |-> FALSE,
     total_chol |-> 50, hdl |-> 10, ldl |-> 35000, sbp |-> 140, egfr |-> 80,
     crp |-> 20, include_crp |-> TRUE,
     bp_controlled |-> FALSE, smoking_cessation |-> FALSE, lifestyle |-> TRUE]

(* Lines 169-171: the options of the two selectboxes the model draws from  *)
(* (a subset of ["None"] + list(LDL_THERAPIES.keys())) and the multiselect.*)
PreStatinOptions == {"None", "Atorvastatin 20 mg"}
DischargeStatinOptions == {"None", "Atorvastatin 80 mg", "Rosuvastatin 20 mg"}
AddOnOptions == {"Ezetimibe", "PCSK9 inhibitor", "Inclisiran"}

FormValues ==
    [pre_statin : PreStatinOptions,
     discharge_statin : DischargeStatinOptions,
     discharge_add_ons : SUBSET AddOnOptions]

(* index=0, index=2 and an empty multiselect.                              *)
FormDefaults ==
    [pre_statin |-> "None", discharge_statin |-> "Atorvastatin 80 mg",
     discharge_add_ons |-> {}]

(* Line 165 without its test.                                              *)
AlwaysTruthy(x) == TRUE

(* `if baseline_risk:` (line 165): None and 0 are false.                   *)
Truthy(x) == IsNum(x) /\ x.val # 0

(* Line 162 without the include_crp test.                                  *)
crp_always_used(crp, include_crp) == crp

(* Line 162.                                                               *)
crp_used_of(crp, include_crp) == IF include_crp THEN crp ELSE 0

(* Line 178 passing the "Smoking cessation planned/achieved" checkbox.     *)
smoking_cessation_checkbox(wv) == wv.smoking_cessation

(* The smoking_cessation argument of line 178.                             *)
smoking_cessation_argument(wv) == ~wv.smoker

NotComputed ==
    [calls |-> <<>>, projected_ldl |-> PyNone, total_reduction |-> 0,
     effect_args |-> <<>>, final_risk |-> PyNone, recommendations |-> ""]

(* Lines 176-179: the body of `if submitted:`; calls lists the functions   *)
(* in the order the script calls them, effect_args the arguments of the    *)
(* call of line 178.                                                       *)
TreatmentImpact(wv, fv, baseline_risk) ==
    LET reduction == calculate_ldl_reduction(Num(wv.ldl), fv.pre_statin,
                         fv.discharge_statin, fv.discharge_add_ons)
        projected_ldl == reduction.projected_ldl
        sc_arg == smoking_cessation_argument(wv)
        final_risk == calculate_ldl_effect(baseline_risk, Num(wv.ldl), projected_ldl,
                          wv.bp_controlled, sc_arg, wv.lifestyle)
        recommendations == generate_recommendations(final_risk)
    IN  [calls |-> <<"calculate_ldl_reduction", "calculate_ldl_effect",
                     "generate_recommendations">>,
         projected_ldl |-> projected_ldl,
         total_reduction |-> reduction.total_reduction,
         effect_args |-> <<baseline_risk, Num(wv.ldl), projected_ldl,
                           wv.bp_controlled, sc_arg, wv.lifestyle>>,
         final_risk |-> final_risk,
         recommendations |-> recommendations.tier]

(* Lines 139 and 159-191: one run of the script on the widgets' values.    *)
MainLogic(wv, fv, sub) ==
    LET vasc_count == (IF wv.cad THEN 1 ELSE 0) + (IF wv.stroke THEN 1 ELSE 0)
                      + (IF wv.pad THEN 1 ELSE 0)
        crp_used == crp_used_of(wv.crp, wv.include_crp)
        baseline_risk == calculate_smart_risk(Num(wv.age), wv.sex, Num(wv.sbp),
                             Num(wv.total_chol), Num(wv.hdl), wv.smoker, wv.diabetes,
                             Num(wv.egfr), Num(crp_used), Num(vasc_count))
        shown == [hdl_warning |-> wv.hdl >= wv.total_chol,
                  crp_used |-> crp_used,
                  baseline_risk |-> baseline_risk]
    IN  IF Truthy(baseline_risk)
        THEN IF sub
             THEN [branch |-> "treatment_form", shown |-> shown,
                   treatment |-> TreatmentImpact(wv, fv, baseline_risk)]
             ELSE [branch |-> "treatment_form", shown |-> shown,
                   treatment |-> NotComputed]
        ELSE [branch |-> "prompt", shown |-> shown, treatment |-> NotComputed]

NoCall == [fn |-> "none", args |-> <<>>, returned |-> FALSE, ret |-> <<>>]

(* The first run of the script, on the widgets' defaults.                  *)
Init ==
    /\ w = WidgetDefaults
    /\ form = FormDefaults
    /\ submitted = FALSE
    /\ out = MainLogic(WidgetDefaults, FormDefaults, FALSE)
    /\ interactions = 0
    /\ call = NoCall

(* The user changes one sidebar widget; the script runs again, and the     *)
(* submit button reads False in that run.                                  *)
ChangeSidebarWidget ==
    /\ interactions < MaxInteractions
    /\ \E k \in DOMAIN WidgetValues :
         \E v \in WidgetValues[k] \ {w[k]} :
            /\ w' = [w EXCEPT ![k] = v]
            /\ out' = MainLogic([w EXCEPT ![k] = v], form, FALSE)
    /\ submitted' = FALSE
    /\ interactions' = interactions + 1
    /\ UNCHANGED <<form, call>>

(* The user fills the treatment form, which line 168 renders only in the   *)
(* branch of a present baseline risk, and clicks "Calculate Treatment      *)
(* Impact"; the script runs again with the button reading True.            *)
SubmitTreatmentForm ==
    /\ interactions < MaxInteractions
    /\ out.branch = "treatment_form"
    /\ \E fv \in FormValues :
         /\ form' = fv
         /\ out' = MainLogic(w, fv, TRUE)
    /\ submitted' = TRUE
    /\ interactions' = interactions + 1
    /\ UNCHANGED <<w, call>>

Next == ChangeSidebarWidget \/ SubmitTreatmentForm

Spec == Init /\ [][Next]_vars

(***************************************************************************)
(* DIRECT CALLS of the four functions, on arguments beyond what the        *)
(* widgets let through: one call per behaviour, its arguments drawn by     *)
(* InitUnit and its result recorded by the action of the function called.  *)
(***************************************************************************)
(* LDL values 0.0 .. MaxLdlSteps/2 mmol/L in steps of 0.5, in LdlUnit.     *)
MaxLdlSteps == 12
(* Risks 0 .. 10 * MaxRiskSteps percent in steps of 10, in RiskUnit.       *)
MaxRiskSteps == 5

LdlGrid == {5000 * k : k \in 0..MaxLdlSteps}
RiskGrid == {10 * RiskPercent * k : k \in 0..MaxRiskSteps}

SmartRiskArgs ==
    [age : {Num(-500), Num(30), Num(65), Num(100), Num(AgeOutOfDomain), PyNone},
     sex : {"Male", "Female"},
     sbp : {Num(90), Num(220)},
     total_chol : {Num(20), Num(100)},
     hdl : {Num(5), Num(30)},
     smoker : BOOLEAN,
     diabetes : BOOLEAN,
     egfr : {Num(15), Num(120)},
     crp : {Num(-10), Num(0), Num(1), Num(200), PyNone},
     vasc_count : {Num(0), Num(3)}]

LdlEffectArgs ==
    [baseline_risk : {Num(r) : r \in RiskGrid \cup {-10 * RiskPercent, 199 * RiskTenth}}
                     \cup {PyNone},
     baseline_ldl : {Num(l) : l \in LdlGrid} \cup {PyNone},
     final_ldl : {Num(l) : l \in LdlGrid \cup {-6000, 26250, 34000, 36000}} \cup {PyNone},
     bp_controlled : BOOLEAN,
     smoking_cessation : BOOLEAN,
     lifestyle : BOOLEAN]

LdlReductionArgs ==
    [current_ldl : {Num(l) : l \in LdlGrid} \cup {PyNone},
     pre_statin : {"None", "Simvastatin 40 mg"} \cup TherapyNames,
     discharge_statin : {"None", "Simvastatin 40 mg"} \cup TherapyNames,
     discharge_add_ons : SUBSET (AddOnOptions \cup {"Bempedoic acid"})]

RecommendArgs ==
    [final_risk : {Num(r) : r \in RiskGrid} \cup {PyNone}
                  \cup {Num(20 * RiskPercent + d) : d \in {-RiskTenth, -1, 1}}
                  \cup {Num(30 * RiskPercent + d) : d \in {-RiskTenth, -1, 1}}
                  \cup {Num(-5 * RiskPercent), Num(200 * RiskPercent)}]

Pending(fn, args) == [fn |-> fn, args |-> args, returned |-> FALSE, ret |-> <<>>]

InitUnit ==
    /\ w = WidgetDefaults
    /\ form = FormDefaults
    /\ submitted = FALSE
    /\ out = MainLogic(WidgetDefaults, FormDefaults, FALSE)
    /\ interactions = 0
    /\ call \in {Pending("calculate_smart_risk", a) : a \in SmartRiskArgs}
            \cup {Pending("calculate_ldl_effect", a) : a \in LdlEffectArgs}
            \cup {Pending("calculate_ldl_reduction", a) : a \in LdlReductionArgs}
            \cup {Pending("generate_recommendations", a) : a \in RecommendArgs}

Return(value) ==
    /\ call' = [call EXCEPT !.returned = TRUE, !.ret = value]
    /\ UNCHANGED <<w, form, submitted, out, interactions>>

CallSmartRisk ==
    /\ call.fn = "calculate_smart_risk" /\ ~call.returned
    /\ LET a == call.args
       IN  Return(calculate_smart_risk(a.age, a.sex, a.sbp, a.total_chol, a.hdl,
                      a.smoker, a.diabetes, a.egfr, a.crp, a.vasc_count))

CallLdlEffect ==
    /\ call.fn = "calculate_ldl_effect" /\ ~call.returned
    /\ LET a == call.args
       IN  Return(calculate_ldl_effect(a.baseline_risk, a.baseline_ldl, a.final_ldl,
                      a.bp_controlled, a.smoking_cessation, a.lifestyle))

CallLdlReduction ==
    /\ call.fn = "calculate_ldl_reduction" /\ ~call.returned
    /\ LET a == call.args
       IN  Return(calculate_ldl_reduction(a.current_ldl, a.pre_statin,
                      a.discharge_statin, a.discharge_add_ons))

CallRecommend ==
    /\ call.fn = "generate_recommendations" /\ ~call.returned
    /\ Return(generate_recommendations(call.args.final_risk))

NextUnit == CallSmartRisk \/ CallLdlEffect \/ CallLdlReduction \/ CallRecommend

SpecUnit == InitUnit /\ [][NextUnit]_vars

(***************************************************************************)
(* PROPERTIES                                                              *)
(***************************************************************************)
Returned(fn) == call.fn = fn /\ call.returned

Flag(b, bonus) == IF b THEN bonus ELSE 0

(* The sum of the bonuses of lines 64-69 for a call's flags, in RrrUnit.   *)
Bonuses(a) ==
    Flag(a.bp_controlled, 100000) + Flag(a.smoking_cessation, 100000)
    + Flag(a.lifestyle, 50000)

NumericEffectCall ==
    /\ Returned("calculate_ldl_effect")
    /\ IsNum(call.args.baseline_risk)
    /\ IsNum(call.args.baseline_ldl)
    /\ IsNum(call.args.final_ldl)

(* C1 (SpecUnit): whenever calculate_smart_risk returns a number, it lies  *)
(* in [1.0, 99.0]; an unclamped risk10*100 below 1.0 is returned as 1.0    *)
(* and one above 99.0 as 99.0.                                             *)
C1_BaselineRiskClamped ==
    (Returned("calculate_smart_risk") /\ IsNum(call.ret)) =>
        LET a == call.args
            raw == smart_risk10(a.age, a.sex, a.sbp, a.total_chol, a.hdl, a.smoker,
                       a.diabetes, a.egfr, a.crp, a.vasc_count)
        IN  /\ call.ret.val >= 1 * RiskPercent
            /\ call.ret.val <= 99 * RiskPercent
            /\ raw.val < 10000 => call.ret.val = 1 * RiskPercent
            /\ raw.val > 990000 => call.ret.val = 99 * RiskPercent

(* A call whose unclamped risk is below 1.0 % has returned 1.0.            *)
C1_Witness ==
    /\ Returned("calculate_smart_risk") /\ IsNum(call.ret)
    /\ call.args.age = Num(30)
    /\ LET a == call.args
       IN  smart_risk10(a.age, a.sex, a.sbp, a.total_chol, a.hdl, a.smoker,
               a.diabetes, a.egfr, a.crp, a.vasc_count).val < 5000
    /\ call.ret.val = 1 * RiskPercent

(* The catalog of section 4.1 as the claim reads it, in percent.           *)
C2_CatalogPercent(name) ==
    CASE name = "Atorvastatin 20 mg" -> 40
      [] name = "Atorvastatin 80 mg" -> 50
      [] name = "Rosuvastatin 10 mg" -> 45
      [] name = "Rosuvastatin 20 mg" -> 55
      [] OTHER -> 0

(* C2 (SpecUnit): for a numeric current LDL, any statin names and any set  *)
(* of add-ons, calculate_ldl_reduction does not raise, totalReduction is   *)
(* s + 20 [Ezetimibe] + 60 [PCSK9 inhibitor] + 50 [Inclisiran] with s the  *)
(* new statin's catalog reduction, halved exactly when the pre-existing    *)
(* statin is not "None", and projectedLdl = currentLdl * (1 - total/100),  *)
(* uncapped; (5.0, None, Atorvastatin 80 mg, {}) gives 50 and 2.5, and     *)
(* (5.0, Atorvastatin 20 mg, Rosuvastatin 20 mg, {Ezetimibe}) 47.5, 2.625. *)
C2_LdlReductionFormula ==
    (Returned("calculate_ldl_reduction") /\ IsNum(call.args.current_ldl)) =>
        LET a == call.args
            s == IF a.pre_statin = "None"
                 THEN 10 * C2_CatalogPercent(a.discharge_statin)
                 ELSE 5 * C2_CatalogPercent(a.discharge_statin)
            total == s + Flag("Ezetimibe" \in a.discharge_add_ons, 200)
                       + Flag("PCSK9 inhibitor" \in a.discharge_add_ons, 600)
                       + Flag("Inclisiran" \in a.discharge_add_ons, 500)
        IN  /\ ~call.ret.raised
            /\ call.ret.total_reduction = total
            /\ IsNum(call.ret.projected_ldl)
            /\ 1000 * call.ret.projected_ldl.val = a.current_ldl.val * (1000 - total)
            /\ total > 1000 /\ a.current_ldl.val > 0 => call.ret.projected_ldl.val < 0
            /\ (a.current_ldl = Num(50000) /\ a.pre_statin = "None"
                /\ a.discharge_statin = "Atorvastatin 80 mg" /\ a.discharge_add_ons = {})
               => (call.ret.total_reduction = 500 /\ call.ret.projected_ldl = Num(25000))
            /\ (a.current_ldl = Num(50000) /\ a.pre_statin = "Atorvastatin 20 mg"
                /\ a.discharge_statin = "Rosuvastatin 20 mg"
                /\ a.discharge_add_ons = {"Ezetimibe"})
               => (call.ret.total_reduction = 475 /\ call.ret.projected_ldl = Num(26250))

(* A call with a halved statin and all three add-ons has returned a total  *)
(* reduction above 100 % and a negative projected LDL.                     *)
C2_Witness ==
    /\ Returned("calculate_ldl_reduction")
    /\ call.args.current_ldl = Num(50000)
    /\ call.args.pre_statin = "Simvastatin 40 mg"
    /\ call.args.discharge_statin = "Rosuvastatin 20 mg"
    /\ call.args.discharge_add_ons = AddOnOptions
    /\ call.ret.total_reduction = 1575
    /\ call.ret.projected_ldl = Num(-28750)

(* The relative risk reduction as the claim states it, in RrrUnit.         *)
C3_Rrr(a) ==
    Min(Min(22 * (a.baseline_ldl.val - a.final_ldl.val), 600000) + Bonuses(a), 800000)

(* C3 (SpecUnit): for numeric inputs calculate_ldl_effect returns          *)
(* baselineRisk * (1 - rrr/100) with rrr = min(min(22 * (baselineLdl -     *)
(* finalLdl), 60) + 10 [bp] + 10 [smoking] + 5 [lifestyle], 80), so the    *)
(* applied reduction never exceeds 80; (30, 4.0, 2.0, all flags) gives     *)
(* rrr = 69 and 9.3.                                                       *)
C3_LdlEffectFormula ==
    NumericEffectCall =>
        LET a == call.args
        IN  /\ IsNum(call.ret)
            /\ call.ret.val = (a.baseline_risk.val \div Micro) * (Micro - C3_Rrr(a))
            /\ C3_Rrr(a) <= 800000
            /\ (a.baseline_risk.val >= 0) =>
                   call.ret.val >= (a.baseline_risk.val \div Micro) * 200000
            /\ (a.baseline_risk = Num(30 * RiskPercent) /\ a.baseline_ldl = Num(40000)
                /\ a.final_ldl = Num(20000) /\ a.bp_controlled
                /\ a.smoking_cessation /\ a.lifestyle)
               => (C3_Rrr(a) = 690000 /\ call.ret = Num(93 * RiskTenth))

(* A call where both caps bind (LDL term above 60, sum 85) has returned    *)
(* 20 % of the baseline risk.                                              *)
C3_Witness ==
    /\ NumericEffectCall
    /\ call.args.baseline_risk = Num(30 * RiskPercent)
    /\ call.args.baseline_ldl = Num(40000)
    /\ call.args.final_ldl = Num(5000)
    /\ call.args.bp_controlled /\ call.args.smoking_cessation /\ call.args.lifestyle
    /\ call.ret = Num(6 * RiskPercent)

(* C4 (SpecUnit): generate_recommendations maps every numeric final risk   *)
(* to exactly one tier: Very High when >= 30, High when >= 20 and < 30,    *)
(* Moderate when < 20; exactly 20 and exactly 30 select the higher tier;   *)
(* no numeric input raises.                                                *)
C4_TierMapping ==
    (Returned("generate_recommendations") /\ IsNum(call.args.final_risk)) =>
        LET r == call.args.final_risk.val
        IN  /\ ~call.ret.raised
            /\ call.ret.tier \in {"Very High Risk", "High Risk", "Moderate Risk"}
            /\ call.ret.tier = "Very High Risk" <=> r >= 30 * RiskPercent
            /\ call.ret.tier = "High Risk" <=> (r >= 20 * RiskPercent /\ r < 30 * RiskPercent)
            /\ call.ret.tier = "Moderate Risk" <=> r < 20 * RiskPercent

(* The call on exactly 30 has returned the Very High tier.                 *)
C4_Witness ==
    /\ Returned("generate_recommendations")
    /\ call.args.final_risk = Num(30 * RiskPercent)
    /\ call.ret.tier = "Very High Risk"

WorsenedLdlCall ==
    /\ NumericEffectCall
    /\ call.args.final_ldl.val > call.args.baseline_ldl.val
    /\ call.args.baseline_risk.val > 0

(* C5 as stated (SpecUnit): when finalLdl > baselineLdl and baselineRisk   *)
(* > 0, the returned risk is >= baselineRisk whatever the flags.           *)
C5_Original_NoImprovementWhenLdlWorsens ==
    WorsenedLdlCall => call.ret.val >= call.args.baseline_risk.val

(* C5 amended (SpecUnit): when finalLdl > baselineLdl and baselineRisk >   *)
(* 0, the returned risk is >= baselineRisk exactly when 22 times the LDL   *)
(* increase is at least the sum of the bonuses of the flags that are set   *)
(* (10, 10, 5); in particular whenever no flag is set.                     *)
C5_NoImprovementUnlessBonusesOffset ==
    WorsenedLdlCall =>
        LET a == call.args
            increase == a.final_ldl.val - a.baseline_ldl.val
        IN  /\ call.ret.val >= a.baseline_risk.val <=> 22 * increase >= Bonuses(a)
            /\ Bonuses(a) = 0 => call.ret.val > a.baseline_risk.val

(* A call with worsened LDL and no flag has returned more than the         *)
(* baseline risk.                                                          *)
C5_Witness ==
    /\ WorsenedLdlCall
    /\ ~call.args.bp_controlled /\ ~call.args.smoking_cessation /\ ~call.args.lifestyle
    /\ call.ret.val > call.args.baseline_risk.val

TreatmentCalls ==
    <<"calculate_ldl_reduction", "calculate_ldl_effect", "generate_recommendations">>

(* C6 (Spec): a run of the script takes the treatment branch exactly when  *)
(* calculate_smart_risk returned a number; when it returned None the run   *)
(* shows the prompt and performs none of projection, adjustment and        *)
(* recommendation; every numeric baseline (at least 1.0) takes the         *)
(* treatment branch, where a submitted form has the three performed in     *)
(* that order, and they are performed in no other run.                     *)
C6_TreatmentGatedOnBaseline ==
    LET b == out.shown.baseline_risk
    IN  /\ out.branch \in {"treatment_form", "prompt"}
        /\ out.branch = "treatment_form" <=> IsNum(b)
        /\ out.branch = "prompt" <=> b = PyNone
        /\ out.branch = "prompt" => out.treatment = NotComputed
        /\ IsNum(b) => b.val >= 1 * RiskPercent
        /\ (IsNum(b) /\ submitted) => out.treatment.calls = TreatmentCalls
        /\ out.treatment.calls # <<>> =>
               (IsNum(b) /\ submitted /\ out.treatment.calls = TreatmentCalls)

(* A run in which calculate_smart_risk failed: None, the prompt, nothing   *)
(* computed.                                                               *)
C6_Witness ==
    /\ out.shown.baseline_risk = PyNone
    /\ out.branch = "prompt"
    /\ out.treatment.calls = <<>>
    /\ interactions > 0

(* C7 (SpecUnit): when the computation in calculate_ldl_effect fails (an   *)
(* operand is not a number), the call returns the baseline_risk it was     *)
(* given, and a numeric baseline risk then goes through                    *)
(* generate_recommendations as the final risk.                             *)
C7_FallbackToBaseline ==
    (Returned("calculate_ldl_effect") /\ ~NumericEffectCall) =>
        /\ call.ret = call.args.baseline_risk
        /\ IsNum(call.args.baseline_risk) =>
               /\ ~generate_recommendations(call.ret).raised
               /\ generate_recommendations(call.ret)
                      = generate_recommendations(call.args.baseline_risk)

(* A failing call (final_ldl not a number) has returned its numeric        *)
(* baseline risk.                                                          *)
C7_Witness ==
    /\ Returned("calculate_ldl_effect")
    /\ call.args.final_ldl = PyNone
    /\ call.args.baseline_risk = Num(30 * RiskPercent)
    /\ call.ret = Num(30 * RiskPercent)

TreatmentComputed == out.treatment.calls # <<>>

(* C8 (Spec): in a run that computes the treatment, the smoking_cessation  *)
(* argument of calculate_ldl_effect is the negation of the current-smoker  *)
(* input; the run with the other value of the "Smoking cessation" checkbox *)
(* gives the same final risk and recommendation; a current smoker's final  *)
(* risk carries no +10 smoking-cessation bonus.                            *)
C8_CessationIsNotSmoker ==
    TreatmentComputed =>
        /\ out.treatment.effect_args[5] = ~w.smoker
        /\ \A sc \in BOOLEAN :
             LET other == MainLogic([w EXCEPT !.smoking_cessation = sc], form, submitted)
             IN  /\ other.treatment.final_risk = out.treatment.final_risk
                 /\ other.treatment.recommendations = out.treatment.recommendations
        /\ w.smoker =>
             LET b == out.shown.baseline_risk.val
                 rrr == Min(Min(22 * (w.ldl - out.treatment.projected_ldl.val), 600000)
                            + Flag(w.bp_controlled, 100000) + Flag(w.lifestyle, 50000),
                            800000)
             IN  out.treatment.final_risk.val = (b \div Micro) * (Micro - rrr)

(* A current smoker's treatment has been computed.                         *)
C8_Witness ==
    /\ TreatmentComputed
    /\ w.smoker
    /\ out.treatment.effect_args[5] = FALSE

(* C9 (Spec): with hs-CRP excluded the script passes 0.0, floored to 0.1   *)
(* by calculate_smart_risk: the baseline risk is the same for every        *)
(* entered hs-CRP value, and equals the baseline risk with hs-CRP included *)
(* and entered as 0.1.                                                     *)
C9_ExcludedCrpIsFloor ==
    ~w.include_crp =>
        /\ out.shown.crp_used = 0
        /\ \A c \in WidgetValues.crp :
             MainLogic([w EXCEPT !.crp = c], form, submitted).shown.baseline_risk
                 = out.shown.baseline_risk
        /\ MainLogic([w EXCEPT !.include_crp = TRUE, !.crp = 1], form, submitted)
               .shown.baseline_risk = out.shown.baseline_risk

(* hs-CRP is excluded in a run whose entered value (20.0) would have       *)
(* changed the baseline risk had it been included.                         *)
C9_Witness ==
    /\ ~w.include_crp
    /\ w.crp = 200
    /\ IsNum(out.shown.baseline_risk)
    /\ MainLogic([w EXCEPT !.include_crp = TRUE], form, submitted).shown.baseline_risk
           # out.shown.baseline_risk

====
